---- MODULE Spec2Model ----
(***************************************************************************)
(* FileProcessor.run of process.py: setup_logging, validate_inputs,        *)
(* process_files (with count_lines per file) and write_summary, over an    *)
(* input location drawn from a bounded family of directories.              *)
(*                                                                         *)
(* File names are the integers 1..MaxNames, compared as the paths are      *)
(* compared by sorted(); a file's content is a sequence of bytes over      *)
(* {10 (newline), 65 (an ASCII letter), 129 (0x81: invalid as UTF-8,       *)
(* undefined in cp1252, U+0081 in latin-1)}; st_size is its length.        *)
(* Timestamps, the KB/MB roundings and the log text are left out.          *)
(***************************************************************************)
EXTENDS Integers, Sequences, FiniteSets, TLC

\* ------------------------------------------------------------------ bounds
MaxNames == 2
MaxBytes == 2
MaxNested == 1

\* ------------------------------------------------------- program constants
MIN_FILES_REQUIRED == 1
MaxFoldersShown == 5
None == -1

Names == 1 .. MaxNames
Bytes == {10, 65, 129}
Encodings == <<"utf-8", "latin-1", "cp1252">>

\* ------------------------------------------------------ the input location
Min(a, b) == IF a < b THEN a ELSE b

NoEntry ==
    [kind |-> "none", readable |-> FALSE, ioerr |-> FALSE, content |-> <<>>, children |-> {}]

DirEntry(ch) ==
    [kind |-> "dir", readable |-> TRUE, ioerr |-> FALSE, content |-> <<>>, children |-> ch]

FileEntry(r, e, c) ==
    [kind |-> "file", readable |-> r, ioerr |-> e, content |-> c, children |-> {}]

\* Byte strings of at most n bytes.
ContentsUpTo(n) == UNION {[1 .. k -> Bytes] : k \in 0 .. n}

\* What one name of the directory can be, its content at most b bytes long:
\* nothing, a subdirectory holding some nested files, a readable file of any
\* content, a file os.access reports unreadable, a file whose open() fails.
EntryPool(b) ==
    {NoEntry}
        \cup {DirEntry(ch) : ch \in SUBSET (1 .. MaxNested)}
        \cup {FileEntry(TRUE, FALSE, c) : c \in ContentsUpTo(b)}
        \cup (IF b >= 1
              THEN {FileEntry(FALSE, FALSE, <<65>>), FileEntry(TRUE, TRUE, <<65>>)}
              ELSE {})

\* The directories of n names holding at most b bytes in all.
RECURSIVE DirsUpTo(_, _)
DirsUpTo(n, b) ==
    IF n = 0
    THEN {<<>>}
    ELSE UNION {{Append(d, e) : d \in DirsUpTo(n - 1, b - Len(e.content))} :
                e \in EntryPool(b)}

Location(ex, dr, rd, en) ==
    [exists |-> ex, isDir |-> dr, readable |-> rd, entries |-> en]

NoEntries == [n \in Names |-> NoEntry]

\* a.txt = "line1\nline2\n", b.bin = 0x81 0x81, as names 1 and 2.
ScenarioLocation ==
    Location(TRUE, TRUE, TRUE,
             [n \in Names |->
                 IF n = 1 THEN FileEntry(TRUE, FALSE, <<65, 10, 65, 10>>)
                 ELSE IF n = 2 THEN FileEntry(TRUE, FALSE, <<129, 129>>)
                 ELSE NoEntry])

Locations ==
    {Location(FALSE, FALSE, FALSE, NoEntries)}
        \cup {Location(TRUE, FALSE, rd, NoEntries) : rd \in BOOLEAN}
        \cup {Location(TRUE, TRUE, rd, en) : rd \in BOOLEAN, en \in DirsUpTo(MaxNames, MaxBytes)}
        \cup {ScenarioLocation}

VARIABLES
    input_folder,   \* the input location on disk
    pc,             \* where run() is
    logger,         \* self.logger is set
    vstep,          \* the check validate_inputs evaluates next
    checked,        \* the checks evaluated so far, in order
    val_files,      \* validate_inputs' local `files`
    valError,       \* the ValidationError raised
    phase,          \* where process_files is
    files,          \* process_files' sorted `files`
    idx,            \* enumerate index of the loop
    enc,            \* index of count_lines' current encoding
    file_size,
    line_count,
    total_size,
    total_lines,
    text_files,
    binary_files,
    file_stats,
    progress,       \* the "[idx/n] name" lines logged
    opens,          \* successful open() calls per file
    openFiles,      \* files open for reading now
    summary,        \* the Summary process_files returned, <<>> before
    artifact        \* the content of summary.json written by this run

vars ==
    <<input_folder, pc, logger, vstep, checked, val_files, valError, phase, files, idx,
      enc, file_size, line_count, total_size, total_lines, text_files, binary_files,
      file_stats, progress, opens, openFiles, summary, artifact>>

valVars == <<vstep, checked, val_files, valError>>

procVars ==
    <<phase, files, idx, enc, file_size, line_count, total_size, total_lines, text_files,
      binary_files, file_stats, progress, opens, openFiles, summary>>

\* ------------------------------------------------------- filesystem queries
\* Mutant of is_file: a subdirectory that holds files passes for a file.
is_file_or_populated_dir(loc, n) ==
    \/ loc.entries[n].kind = "file"
    \/ loc.entries[n].kind = "dir" /\ loc.entries[n].children # {}

is_file(loc, n) == loc.entries[n].kind = "file"

is_dir(loc, n) == loc.entries[n].kind = "dir"

\* Path.iterdir(): the direct children, in an order the filesystem chooses.
iterdir(loc) ==
    LET present == {n \in Names : loc.entries[n].kind # "none"}
    IN {s \in [1 .. Cardinality(present) -> present] : {s[i] : i \in DOMAIN s} = present}

RECURSIVE Insert(_, _)
Insert(x, s) ==
    IF s = <<>> THEN <<x>>
    ELSE IF x <= Head(s) THEN <<x>> \o s
    ELSE <<Head(s)>> \o Insert(x, Tail(s))

\* Mutant of sorted: the enumeration order is kept.
unsorted(s) == s

RECURSIVE sorted(_)
sorted(s) == IF s = <<>> THEN <<>> ELSE Insert(Head(s), sorted(Tail(s)))

\* ------------------------------------------------------------- count_lines
\* A byte >= 0x80 is valid UTF-8 only inside a multi-byte sequence opened by a
\* lead byte 0xC2..0xF4; the bytes modelled hold no lead byte.
Utf8Decodes(c) == \A i \in DOMAIN c : c[i] < 128

Latin1Decodes(c) == \A i \in DOMAIN c : c[i] \in 0 .. 255

Cp1252Decodes(c) == \A i \in DOMAIN c : c[i] \notin {129, 141, 143, 144, 157}

Decodes(e, c) ==
    CASE Encodings[e] = "utf-8" -> Utf8Decodes(c)
      [] Encodings[e] = "latin-1" -> Latin1Decodes(c)
      [] Encodings[e] = "cp1252" -> Cp1252Decodes(c)

\* sum(1 for _ in f): the lines a text-mode file iterates over.
LineCount(c) ==
    Cardinality({i \in DOMAIN c : c[i] = 10})
        + (IF Len(c) > 0 /\ c[Len(c)] # 10 THEN 1 ELSE 0)

\* ------------------------------------------------------------ validation
NoError ==
    [kind |-> "none", found |-> 0, subfolders |-> 0, folder_names |-> <<>>, more |-> 0,
     note |-> FALSE, empty |-> FALSE, unreadable |-> <<>>]

SimpleError(k) == [NoError EXCEPT !.kind = k]

TooFewFiles(all_items, fl, folders) ==
    [kind |-> "Input folder must contain at least",
     found |-> Len(fl),
     subfolders |-> Len(folders),
     folder_names |-> SubSeq(folders, 1, Min(Len(folders), MaxFoldersShown)),
     more |-> IF Len(folders) > MaxFoldersShown THEN Len(folders) - MaxFoldersShown ELSE 0,
     note |-> folders # <<>>,
     empty |-> folders = <<>> /\ Len(all_items) = 0,
     unreadable |-> <<>>]

\* raise ValidationError(...) inside run(): the except clause returns 1.
RaiseValidation(err) ==
    /\ valError' = err
    /\ pc' = "FailedValidation"
    /\ vstep' = 0

Init ==
    /\ input_folder \in Locations
    /\ pc = "Idle"
    /\ logger = FALSE
    /\ vstep = 0
    /\ checked = <<>>
    /\ val_files = <<>>
    /\ valError = NoError
    /\ phase = "none"
    /\ files = <<>>
    /\ idx = 0
    /\ enc = 0
    /\ file_size = 0
    /\ line_count = None
    /\ total_size = 0
    /\ total_lines = 0
    /\ text_files = 0
    /\ binary_files = 0
    /\ file_stats = <<>>
    /\ progress = <<>>
    /\ opens = [n \in Names |-> 0]
    /\ openFiles = {}
    /\ summary = <<>>
    /\ artifact = <<>>

\* ------------------------------------------------------------------- run()
SetupLogging ==
    /\ pc = "Idle"
    /\ logger' = TRUE
    /\ pc' = "Validating"
    /\ vstep' = 1
    /\ UNCHANGED <<input_folder, checked, val_files, valError, artifact>>
    /\ UNCHANGED procVars

\* mkdir (before self.logger is assigned) or FileHandler (after) raises.
SetupFail ==
    /\ pc = "Idle"
    /\ \E at \in {"mkdir", "FileHandler"} : logger' = (at = "FileHandler")
    /\ pc' = "FailedUnexpected"
    /\ UNCHANGED <<input_folder, artifact>>
    /\ UNCHANGED valVars
    /\ UNCHANGED procVars

Check1 ==
    /\ pc = "Validating" /\ vstep = 1
    /\ checked' = Append(checked, 1)
    /\ IF ~input_folder.exists
       THEN RaiseValidation(SimpleError("Input folder not found"))
       ELSE /\ vstep' = 2
            /\ UNCHANGED <<valError, pc>>
    /\ UNCHANGED <<input_folder, logger, val_files, artifact>>
    /\ UNCHANGED procVars

Check2 ==
    /\ pc = "Validating" /\ vstep = 2
    /\ checked' = Append(checked, 2)
    /\ IF ~input_folder.isDir
       THEN RaiseValidation(SimpleError("Path is not a directory"))
       ELSE /\ vstep' = 3
            /\ UNCHANGED <<valError, pc>>
    /\ UNCHANGED <<input_folder, logger, val_files, artifact>>
    /\ UNCHANGED procVars

\* Mutant of Check3: the readability of the folder is not checked.
Check3_NoRaise ==
    /\ pc = "Validating" /\ vstep = 3
    /\ checked' = Append(checked, 3)
    /\ vstep' = 4
    /\ UNCHANGED <<valError, pc>>
    /\ UNCHANGED <<input_folder, logger, val_files, artifact>>
    /\ UNCHANGED procVars

Check3 ==
    /\ pc = "Validating" /\ vstep = 3
    /\ checked' = Append(checked, 3)
    /\ IF ~input_folder.readable
       THEN RaiseValidation(SimpleError("Cannot read folder"))
       ELSE /\ vstep' = 4
            /\ UNCHANGED <<valError, pc>>
    /\ UNCHANGED <<input_folder, logger, val_files, artifact>>
    /\ UNCHANGED procVars

\* Mutant of Check4: subfolders count toward the minimum.
Check4_CountsItems ==
    /\ pc = "Validating" /\ vstep = 4
    /\ checked' = Append(checked, 4)
    /\ \E all_items \in iterdir(input_folder) :
          LET fl == SelectSeq(all_items, LAMBDA n : input_folder.entries[n].kind = "file")
              folders == SelectSeq(all_items, LAMBDA n : input_folder.entries[n].kind = "dir")
          IN IF Len(all_items) < MIN_FILES_REQUIRED
             THEN /\ RaiseValidation(TooFewFiles(all_items, fl, folders))
                  /\ UNCHANGED val_files
             ELSE /\ val_files' = fl
                  /\ vstep' = 5
                  /\ UNCHANGED <<valError, pc>>
    /\ UNCHANGED <<input_folder, logger, artifact>>
    /\ UNCHANGED procVars

Check4 ==
    /\ pc = "Validating" /\ vstep = 4
    /\ checked' = Append(checked, 4)
    /\ \E all_items \in iterdir(input_folder) :
          LET fl == SelectSeq(all_items, LAMBDA n : is_file(input_folder, n))
              folders == SelectSeq(all_items, LAMBDA n : is_dir(input_folder, n))
          IN IF Len(fl) < MIN_FILES_REQUIRED
             THEN /\ RaiseValidation(TooFewFiles(all_items, fl, folders))
                  /\ UNCHANGED val_files
             ELSE /\ val_files' = fl
                  /\ vstep' = 5
                  /\ UNCHANGED <<valError, pc>>
    /\ UNCHANGED <<input_folder, logger, artifact>>
    /\ UNCHANGED procVars

\* Mutant of Check5: readability is probed by opening each file.
Check5_OpensFiles ==
    /\ pc = "Validating" /\ vstep = 5
    /\ checked' = Append(checked, 5)
    /\ opens' = [n \in Names |->
                    IF \E i \in DOMAIN val_files : val_files[i] = n
                          /\ input_folder.entries[n].readable
                    THEN opens[n] + 1 ELSE opens[n]]
    /\ LET unreadable == SelectSeq(val_files, LAMBDA n : ~input_folder.entries[n].readable)
       IN IF unreadable # <<>>
          THEN /\ RaiseValidation([SimpleError("Cannot read files") EXCEPT !.unreadable = unreadable])
               /\ UNCHANGED phase
          ELSE /\ pc' = "Processing"
               /\ phase' = "list"
               /\ vstep' = 0
               /\ UNCHANGED valError
    /\ UNCHANGED <<input_folder, logger, val_files, artifact>>
    /\ UNCHANGED <<files, idx, enc, file_size, line_count, total_size, total_lines, text_files,
                   binary_files, file_stats, progress, openFiles, summary>>

Check5 ==
    /\ pc = "Validating" /\ vstep = 5
    /\ checked' = Append(checked, 5)
    /\ LET unreadable == SelectSeq(val_files, LAMBDA n : ~input_folder.entries[n].readable)
       IN IF unreadable # <<>>
          THEN /\ RaiseValidation([SimpleError("Cannot read files") EXCEPT !.unreadable = unreadable])
               /\ UNCHANGED phase
          ELSE /\ pc' = "Processing"
               /\ phase' = "list"
               /\ vstep' = 0
               /\ UNCHANGED valError
    /\ UNCHANGED <<input_folder, logger, val_files, artifact>>
    /\ UNCHANGED <<files, idx, enc, file_size, line_count, total_size, total_lines, text_files,
                   binary_files, file_stats, progress, opens, openFiles, summary>>

\* ----------------------------------------------------------- process_files
FileInfo(name, size, type, lc) ==
    [name |-> name, size_bytes |-> size, type |-> type, line_count |-> lc]

\* files = sorted([item for item in iterdir() if item.is_file()]) and the
\* accumulators' initialisation.
ListFiles ==
    /\ pc = "Processing" /\ phase = "list"
    /\ \E all_items \in iterdir(input_folder) :
          files' = sorted(SelectSeq(all_items, LAMBDA n : is_file(input_folder, n)))
    /\ file_stats' = <<>>
    /\ total_size' = 0
    /\ total_lines' = 0
    /\ text_files' = 0
    /\ binary_files' = 0
    /\ idx' = 1
    /\ phase' = "loop"
    /\ UNCHANGED <<input_folder, pc, logger, artifact, enc, file_size, line_count, progress,
                   opens, openFiles, summary>>
    /\ UNCHANGED valVars

\* Loop head for one more file: the progress line, stat().st_size, and the
\* call of count_lines.
StatFile ==
    /\ pc = "Processing" /\ phase = "loop" /\ idx <= Len(files)
    /\ progress' = Append(progress, <<idx, files[idx]>>)
    /\ file_size' = Len(input_folder.entries[files[idx]].content)
    /\ total_size' = total_size + Len(input_folder.entries[files[idx]].content)
    /\ enc' = 1
    /\ phase' = "open"
    /\ UNCHANGED <<input_folder, pc, logger, artifact, files, idx, line_count, total_lines,
                   text_files, binary_files, file_stats, opens, openFiles, summary>>
    /\ UNCHANGED valVars

\* Mutant of OpenFile: the OSError of open() is not caught in count_lines.
OpenFile_Propagates ==
    /\ pc = "Processing" /\ phase = "open"
    /\ IF input_folder.entries[files[idx]].ioerr
       THEN /\ pc' = "FailedUnexpected"
            /\ UNCHANGED <<opens, openFiles, phase>>
       ELSE /\ opens' = [opens EXCEPT ![files[idx]] = @ + 1]
            /\ openFiles' = openFiles \cup {files[idx]}
            /\ phase' = "read"
            /\ UNCHANGED pc
    /\ UNCHANGED <<input_folder, logger, artifact, files, idx, enc, file_size, total_size,
                   total_lines, text_files, binary_files, file_stats, progress, summary,
                   line_count>>
    /\ UNCHANGED valVars

\* count_lines: open(file_path, 'r', encoding=...). An OSError leaves the
\* encoding loop through the outer except clause, which returns None.
OpenFile ==
    /\ pc = "Processing" /\ phase = "open"
    /\ IF input_folder.entries[files[idx]].ioerr
       THEN /\ line_count' = None
            /\ phase' = "record"
            /\ UNCHANGED <<opens, openFiles>>
       ELSE /\ opens' = [opens EXCEPT ![files[idx]] = @ + 1]
            /\ openFiles' = openFiles \cup {files[idx]}
            /\ phase' = "read"
            /\ UNCHANGED line_count
    /\ UNCHANGED <<input_folder, pc, logger, artifact, files, idx, enc, file_size, total_size,
                   total_lines, text_files, binary_files, file_stats, progress, summary>>
    /\ UNCHANGED valVars

\* Mutant of ReadFile: the file is read without the with block and never closed.
ReadFile_Leaks ==
    /\ pc = "Processing" /\ phase = "read"
    /\ IF Decodes(enc, input_folder.entries[files[idx]].content)
       THEN /\ line_count' = LineCount(input_folder.entries[files[idx]].content)
            /\ phase' = "record"
            /\ UNCHANGED enc
       ELSE IF enc < Len(Encodings)
            THEN /\ enc' = enc + 1
                 /\ phase' = "open"
                 /\ UNCHANGED line_count
            ELSE /\ line_count' = None
                 /\ phase' = "record"
                 /\ UNCHANGED enc
    /\ UNCHANGED <<input_folder, pc, logger, artifact, files, idx, file_size, total_size,
                   total_lines, text_files, binary_files, file_stats, progress, opens, summary,
                   openFiles>>
    /\ UNCHANGED valVars

\* count_lines: sum(1 for _ in f) under the current encoding; the with block
\* closes the file on return and on UnicodeDecodeError alike.
ReadFile ==
    /\ pc = "Processing" /\ phase = "read"
    /\ openFiles' = openFiles \ {files[idx]}
    /\ IF Decodes(enc, input_folder.entries[files[idx]].content)
       THEN /\ line_count' = LineCount(input_folder.entries[files[idx]].content)
            /\ phase' = "record"
            /\ UNCHANGED enc
       ELSE IF enc < Len(Encodings)
            THEN /\ enc' = enc + 1
                 /\ phase' = "open"
                 /\ UNCHANGED line_count
            ELSE /\ line_count' = None
                 /\ phase' = "record"
                 /\ UNCHANGED enc
    /\ UNCHANGED <<input_folder, pc, logger, artifact, files, idx, file_size, total_size,
                   total_lines, text_files, binary_files, file_stats, progress, opens, summary>>
    /\ UNCHANGED valVars

\* Mutant of RecordFile: the binary branch forgets its counter.
RecordFile_SkipsBinaryCount ==
    /\ pc = "Processing" /\ phase = "record"
    /\ IF line_count # None
       THEN /\ total_lines' = total_lines + line_count
            /\ text_files' = text_files + 1
            /\ file_stats' = Append(file_stats, FileInfo(files[idx], file_size, "text", line_count))
            /\ UNCHANGED binary_files
       ELSE /\ file_stats' = Append(file_stats, FileInfo(files[idx], file_size, "binary", line_count))
            /\ UNCHANGED <<total_lines, text_files, binary_files>>
    /\ idx' = idx + 1
    /\ phase' = "loop"
    /\ UNCHANGED <<input_folder, pc, logger, artifact, files, enc, file_size, line_count,
                   total_size, progress, opens, openFiles, summary>>
    /\ UNCHANGED valVars

\* The rest of the loop body: the text/binary branch and file_stats.append.
RecordFile ==
    /\ pc = "Processing" /\ phase = "record"
    /\ IF line_count # None
       THEN /\ total_lines' = total_lines + line_count
            /\ text_files' = text_files + 1
            /\ file_stats' = Append(file_stats, FileInfo(files[idx], file_size, "text", line_count))
            /\ UNCHANGED binary_files
       ELSE /\ binary_files' = binary_files + 1
            /\ file_stats' = Append(file_stats, FileInfo(files[idx], file_size, "binary", line_count))
            /\ UNCHANGED <<total_lines, text_files>>
    /\ idx' = idx + 1
    /\ phase' = "loop"
    /\ UNCHANGED <<input_folder, pc, logger, artifact, files, enc, file_size, line_count,
                   total_size, progress, opens, openFiles, summary>>
    /\ UNCHANGED valVars

Statistics(n, tf, bf, ts, tl) ==
    [total_files |-> n, text_files |-> tf, binary_files |-> bf, total_size_bytes |-> ts,
     total_lines |-> tl]

\* The loop is exhausted: compile the summary and return it to run().
Compile ==
    /\ pc = "Processing" /\ phase = "loop" /\ idx > Len(files)
    /\ summary' =
          <<[statistics |->
                 Statistics(Len(files), text_files, binary_files, total_size, total_lines),
             files |-> file_stats]>>
    /\ phase' = "done"
    /\ pc' = "Writing"
    /\ UNCHANGED <<input_folder, logger, artifact, files, idx, enc, file_size, line_count,
                   total_size, total_lines, text_files, binary_files, file_stats, progress,
                   opens, openFiles>>
    /\ UNCHANGED valVars

\* ----------------------------------------------------------- write_summary
\* json.dump succeeds; print_summary_stats and the banner follow; return 0.
WriteSummary ==
    /\ pc = "Writing"
    /\ artifact' = summary
    /\ pc' = "Succeeded"
    /\ UNCHANGED <<input_folder, logger>>
    /\ UNCHANGED valVars
    /\ UNCHANGED procVars

\* Mutant of WriteFail: the write error is swallowed and run() returns 0.
WriteFail_Swallowed ==
    /\ pc = "Writing"
    /\ pc' = "Succeeded"
    /\ UNCHANGED <<input_folder, logger, artifact>>
    /\ UNCHANGED valVars
    /\ UNCHANGED procVars

\* open or json.dump raises: RuntimeError, caught by run(), return 2.
WriteFail ==
    /\ pc = "Writing"
    /\ pc' = "FailedUnexpected"
    /\ UNCHANGED <<input_folder, logger, artifact>>
    /\ UNCHANGED valVars
    /\ UNCHANGED procVars

Next ==
    \/ SetupLogging
    \/ SetupFail
    \/ Check1
    \/ Check2
    \/ Check3
    \/ Check4
    \/ Check5
    \/ ListFiles
    \/ StatFile
    \/ OpenFile
    \/ ReadFile
    \/ RecordFile
    \/ Compile
    \/ WriteSummary
    \/ WriteFail

Spec == Init /\ [][Next]_vars

\* The value run() returns.
ExitCode ==
    CASE pc = "Succeeded" -> 0
      [] pc = "FailedValidation" -> 1
      [] pc = "FailedUnexpected" -> 2
      [] OTHER -> None

\* ------------------------------------------- the operations as functions
\* What each operation computes from the location it is given, whatever order
\* iterdir() lists the children in.
RECURSIVE SumSizes(_)
SumSizes(recs) == IF recs = <<>> THEN 0 ELSE Head(recs).size_bytes + SumSizes(Tail(recs))

RECURSIVE SumTextLines(_)
SumTextLines(recs) ==
    IF recs = <<>> THEN 0
    ELSE (IF Head(recs).type = "text" THEN Head(recs).line_count ELSE 0)
             + SumTextLines(Tail(recs))

CountType(recs, t) == Cardinality({i \in DOMAIN recs : recs[i].type = t})

\* The message head of the ValidationError raised, "none" when none is.
validate_inputs(loc) ==
    IF ~loc.exists THEN "Input folder not found"
    ELSE IF ~loc.isDir THEN "Path is not a directory"
    ELSE IF ~loc.readable THEN "Cannot read folder"
    ELSE IF Cardinality({n \in Names : is_file(loc, n)}) < MIN_FILES_REQUIRED
         THEN "Input folder must contain at least"
    ELSE IF \E n \in Names : is_file(loc, n) /\ ~loc.entries[n].readable
         THEN "Cannot read files"
    ELSE "none"

RECURSIVE count_lines_from(_, _)
count_lines_from(entry, e) ==
    IF e > Len(Encodings) THEN None
    ELSE IF Decodes(e, entry.content) THEN LineCount(entry.content)
    ELSE count_lines_from(entry, e + 1)

count_lines(entry) == IF entry.ioerr THEN None ELSE count_lines_from(entry, 1)

process_files(loc) ==
    LET all_items == CHOOSE s \in iterdir(loc) : TRUE
        fl == sorted(SelectSeq(all_items, LAMBDA n : is_file(loc, n)))
        recs == [k \in 1 .. Len(fl) |->
                    LET lc == count_lines(loc.entries[fl[k]])
                    IN FileInfo(fl[k], Len(loc.entries[fl[k]].content),
                                IF lc # None THEN "text" ELSE "binary", lc)]
    IN [statistics |->
            Statistics(Len(fl), CountType(recs, "text"), CountType(recs, "binary"),
                       SumSizes(recs), SumTextLines(recs)),
        files |-> recs]

\* =================================================================== claims
DirectFiles(loc) == {n \in Names : loc.entries[n].kind = "file"}

SubDirs(loc) == {n \in Names : loc.entries[n].kind = "dir"}

Terminal == {"Succeeded", "FailedValidation", "FailedUnexpected"}

\* validate_inputs has returned or raised.
ValidationOver == pc \notin {"Idle", "Validating"} /\ checked # <<>>

ValidationPassed == ValidationOver /\ pc # "FailedValidation"

\* The k-th requirement of the Validator, stated on the location alone.
CheckViolated(k) ==
    CASE k = 1 -> ~input_folder.exists
      [] k = 2 -> ~input_folder.isDir
      [] k = 3 -> ~input_folder.readable
      [] k = 4 -> Cardinality(DirectFiles(input_folder)) < 1
      [] k = 5 -> \E n \in DirectFiles(input_folder) : ~input_folder.entries[n].readable

LowestViolated ==
    IF \E k \in 1 .. 5 : CheckViolated(k)
    THEN CHOOSE k \in 1 .. 5 : CheckViolated(k) /\ \A j \in 1 .. (k - 1) : ~CheckViolated(j)
    ELSE 0

CheckError ==
    <<"Input folder not found", "Path is not a directory", "Cannot read folder",
      "Input folder must contain at least", "Cannot read files">>

\* C1: the five checks are evaluated in the order 1..5 and evaluation stops at
\* the first that fails: the error raised is the one of the lowest-numbered
\* violated check, no check after it is evaluated, the five errors are
\* pairwise distinct, and validation passes exactly when no check is violated.
C1_ChecksInOrder ==
    /\ checked = [i \in 1 .. Len(checked) |-> i]
    /\ \A i, j \in 1 .. 5 : i # j => CheckError[i] # CheckError[j]
    /\ pc = "Validating" =>
          /\ Len(checked) = vstep - 1
          /\ \A i \in 1 .. Len(checked) : ~CheckViolated(i)
    /\ pc = "FailedValidation" =>
          /\ LowestViolated # 0
          /\ Len(checked) = LowestViolated
          /\ valError.kind = CheckError[LowestViolated]
    /\ ValidationPassed =>
          /\ LowestViolated = 0
          /\ Len(checked) = 5
          /\ valError = NoError

\* An unreadable directory without files violates checks 3 and 4; check 3 is
\* the one reported.
C1_Witness ==
    /\ pc = "FailedValidation"
    /\ CheckViolated(3) /\ CheckViolated(4)
    /\ valError.kind = "Cannot read folder"

ReportsZeroFiles ==
    /\ pc = "FailedValidation"
    /\ valError.kind = "Input folder must contain at least"
    /\ valError.found = 0

\* C2 as stated: every input directory with zero direct-child regular files
\* fails validation with a message reporting 0 files found, whatever its
\* subdirectories hold.
C2_Original ==
    (/\ ValidationOver
     /\ input_folder.exists /\ input_folder.isDir
     /\ DirectFiles(input_folder) = {})
        => ReportsZeroFiles

\* C2 amended: every readable input directory with zero direct-child regular
\* files fails validation with a message reporting 0 files found, whatever
\* its subdirectories hold.
C2_ZeroFilesReported ==
    (/\ ValidationOver
     /\ input_folder.exists /\ input_folder.isDir /\ input_folder.readable
     /\ DirectFiles(input_folder) = {})
        => ReportsZeroFiles

\* Zero direct files, and a subdirectory that holds a nested file.
C2_Witness ==
    /\ ReportsZeroFiles
    /\ \E n \in SubDirs(input_folder) : input_folder.entries[n].children # {}

TotalsHold(s) ==
    /\ s.statistics.total_files = s.statistics.text_files + s.statistics.binary_files
    /\ s.statistics.total_files = Len(s.files)
    /\ s.statistics.text_files = CountType(s.files, "text")
    /\ s.statistics.binary_files = CountType(s.files, "binary")
    /\ s.statistics.total_size_bytes = SumSizes(s.files)
    /\ s.statistics.total_lines = SumTextLines(s.files)
    /\ \A i \in DOMAIN s.files :
          /\ s.files[i].type \in {"text", "binary"}
          /\ s.files[i].type = "binary" <=> s.files[i].line_count = None
          /\ s.files[i].size_bytes = Len(input_folder.entries[s.files[i].name].content)

\* C4: in every Summary, total_files = text_files + binary_files = the number
\* of file records, total_size_bytes is the sum of the records' sizes, and
\* total_lines is the sum of line_count over the text records; binary records
\* have no line count.
C4_TotalsInvariant ==
    /\ summary # <<>> => TotalsHold(summary[1])
    /\ artifact # <<>> => TotalsHold(artifact[1])

C4_Witness ==
    /\ summary # <<>>
    /\ \E i, j \in DOMAIN summary[1].files :
          /\ summary[1].files[i].type = "text" /\ summary[1].files[i].line_count > 0
          /\ summary[1].files[j].type = "binary" /\ summary[1].files[j].size_bytes > 0

\* C5: the files sequence of every Summary is sorted by name ascending and
\* holds exactly one record per direct-child regular file; the k-th file
\* processed (progress index k) is the k-th record.
C5_SortedFiles ==
    /\ \A k \in DOMAIN progress : progress[k][1] = k
    /\ Len(file_stats) <= Len(progress)
    /\ \A k \in DOMAIN file_stats : file_stats[k].name = progress[k][2]
    /\ summary # <<>> =>
          LET recs == summary[1].files
          IN /\ \A i, j \in DOMAIN recs : i < j => recs[i].name < recs[j].name
             /\ {recs[i].name : i \in DOMAIN recs} = DirectFiles(input_folder)
             /\ Len(recs) = Cardinality(DirectFiles(input_folder))
             /\ Len(progress) = Len(recs)

C5_Witness ==
    /\ summary # <<>>
    /\ Len(summary[1].files) >= 2
    /\ progress[2] = <<2, summary[1].files[2].name>>

\* C8: when validate_inputs raises a ValidationError, no direct-child file has
\* been opened, no FileRecord exists, process_files and write_summary were
\* never entered and the run wrote no summary artifact.
C8_ValidationAborts ==
    pc = "FailedValidation" =>
        /\ \A n \in Names : opens[n] = 0
        /\ openFiles = {}
        /\ phase = "none"
        /\ files = <<>> /\ progress = <<>> /\ file_stats = <<>>
        /\ summary = <<>>
        /\ artifact = <<>>
        /\ ExitCode = 1

\* The empty input directory.
C8_Witness ==
    /\ pc = "FailedValidation"
    /\ valError.empty
    /\ valError.found = 0

\* The locations that differ from loc only in what its subdirectories hold.
Twins(loc) ==
    {[loc EXCEPT !.entries =
          [n \in Names |-> IF n \in SubDirs(loc) THEN DirEntry(ch[n]) ELSE loc.entries[n]]] :
       ch \in [SubDirs(loc) -> SUBSET (1 .. MaxNested)]}

\* C3: a run on a directory with at least one subdirectory has the validation
\* outcome, the Totals and the FileRecords of every directory that has the
\* same direct children and differs only in the files inside its
\* subdirectories.
C3_SubdirContentsIgnored ==
    \A t \in Twins(input_folder) :
        SubDirs(input_folder) # {} =>
            /\ ValidationOver => valError.kind = validate_inputs(t)
            /\ summary # <<>> => summary[1] = process_files(t)
            /\ artifact # <<>> => artifact[1] = process_files(t)

C3_Witness ==
    /\ artifact # <<>>
    /\ \E n \in SubDirs(input_folder) : input_folder.entries[n].children # {}
    /\ \E t \in Twins(input_folder) : t # input_folder

\* Bytes that neither strict decoder of the chain (UTF-8, cp1252) accepts.
NonDecodable(c) == ~Utf8Decodes(c) /\ ~Cp1252Decodes(c)

\* A UTF-8 text of newline-terminated lines, and how many.
NewlineTerminated(c) == Utf8Decodes(c) /\ (c = <<>> \/ c[Len(c)] = 10)

ContentOf(n) == input_folder.entries[n].content

\* C6 as stated: a file of non-decodable bytes is recorded binary with no line
\* count, a UTF-8 file of n newline-terminated lines is recorded text with
\* line_count n, and the directory {a.txt = "line1\nline2\n", b.bin =
\* non-decodable bytes} has the statistics total_files 2, text_files 1,
\* binary_files 1, total_lines 2.
C6_Original ==
    summary # <<>> =>
        LET s == summary[1]
        IN /\ \A i \in DOMAIN s.files :
                 /\ NonDecodable(ContentOf(s.files[i].name)) =>
                        s.files[i].type = "binary" /\ s.files[i].line_count = None
                 /\ (NewlineTerminated(ContentOf(s.files[i].name))
                        /\ ~input_folder.entries[s.files[i].name].ioerr) =>
                        /\ s.files[i].type = "text"
                        /\ s.files[i].line_count =
                               Cardinality({j \in DOMAIN ContentOf(s.files[i].name) :
                                               ContentOf(s.files[i].name)[j] = 10})
           /\ input_folder = ScenarioLocation =>
                 s.statistics = Statistics(2, 1, 1, s.statistics.total_size_bytes, 2)

\* count_lines produces no line count for the file.
ClassificationFails(n) ==
    \/ input_folder.entries[n].ioerr
    \/ \A e \in DOMAIN Encodings : ~Decodes(e, ContentOf(n))

C7_Step ==
    (pc = "Processing" /\ phase \in {"open", "read", "record"} /\ ClassificationFails(files[idx]))
        => /\ pc' = "Processing"
           /\ files' = files
           /\ phase' = "record" => line_count' = None
           /\ phase = "record" =>
                 /\ file_stats' = Append(file_stats, FileInfo(files[idx], file_size, "binary", None))
                 /\ idx' = idx + 1
                 /\ phase' = "loop"

\* C7: a file whose classification fails (every encoding fails, or an I/O
\* error inside count_lines) gets no line count and a binary record, the loop
\* goes on to the next file, and the run does not fail at that file.
C7_FailureAbsorbed == [][C7_Step]_vars

\* A file whose open() failed has its binary record, and the file after it
\* has been processed too.
C7_Witness ==
    \E k \in DOMAIN file_stats :
        /\ ClassificationFails(file_stats[k].name)
        /\ file_stats[k].type = "binary"
        /\ k < Len(file_stats)

\* The transitions of the whole-run state machine, without the one the claim
\* leaves out.
StagesStep ==
    /\ pc \notin Terminal
    /\ pc = "Idle" => pc' \in {"Validating", "FailedUnexpected"}
    /\ pc = "Validating" =>
          pc' \in {"Validating", "Processing", "FailedValidation", "FailedUnexpected"}
    /\ pc = "Processing" => pc' \in {"Processing", "Writing", "FailedUnexpected"}
    /\ pc = "Writing" => pc' \in {"Succeeded", "FailedUnexpected"}
    /\ pc' = "Succeeded" => summary # <<>> /\ artifact' = summary
    /\ pc' = "Processing" => checked' = <<1, 2, 3, 4, 5>> /\ valError' = NoError
    /\ pc' = "Writing" => summary' # <<>> /\ Len(file_stats') = Len(files')
    /\ pc' # "Succeeded" => artifact' = <<>>
    /\ pc' \in Terminal =>
          ExitCode' = (CASE pc' = "Succeeded" -> 0
                         [] pc' = "FailedValidation" -> 1
                         [] pc' = "FailedUnexpected" -> 2)

SinglePassRest ==
    /\ Cardinality(openFiles) <= 1
    /\ \A i, j \in DOMAIN progress : i # j => progress[i][2] # progress[j][2]
    /\ pc \in {"Idle", "Validating", "Processing", "FailedValidation"} => summary = <<>>
    /\ summary # <<>> =>
          /\ Len(summary[1].files) = Len(files)
          /\ openFiles = {}

Attempts(n) ==
    IF input_folder.entries[n].ioerr THEN 0
    ELSE IF \E e \in DOMAIN Encodings : Decodes(e, ContentOf(n))
         THEN CHOOSE e \in DOMAIN Encodings :
                  Decodes(e, ContentOf(n)) /\ \A d \in 1 .. (e - 1) : ~Decodes(d, ContentOf(n))
         ELSE Len(Encodings)

====
